---- MODULE Spec2Model ----
(***************************************************************************)
(* A model of blockservice (src/blockservice/blockservice.go): the hybrid  *)
(* block service over a local blockstore and a remote exchange.            *)
(*                                                                         *)
(* Identifiers are records [pub, key]: pub names the public (addressing)   *)
(* part of a cid, key the decryption material the cid may carry.  A block  *)
(* is [cid, sealed]: the cid and the bytes as they are stored/exchanged.   *)
(***************************************************************************)
EXTENDS Integers, Sequences, FiniteSets, TLC

(***************************************************************************)
(* The universe of identifiers and payloads.                               *)
(***************************************************************************)
NoKey == "none"

Keys == {NoKey, "k1", "k2"}

\* p1: plain content, p2: content sealed under k1, p3: plain content whose
\* identifier is built from a hash function the gate refuses.
PubCids == {"p1", "p2", "p3"}

Cids == [pub : PubCids, key : Keys]

NoCid == [pub |-> "none", key |-> NoKey]

MhType(p) == IF p = "p3" THEN "md5" ELSE "sha2-256"

GoodHashes == {"sha2-256"}

SealKey(p) == IF p = "p2" THEN "k1" ELSE NoKey

Absent == [kind |-> "absent", of |-> "none"]

DecryptErr == [kind |-> "undecryptable", of |-> "none"]

\* The bytes stored and exchanged under public identifier p.
PubData(p) == [kind |-> IF SealKey(p) = NoKey THEN "plain" ELSE "sealed", of |-> p]

NoBlock == [cid |-> NoCid, sealed |-> Absent]

Blocks == {[cid |-> c, sealed |-> PubData(c.pub)] : c \in Cids}

(***************************************************************************)
(* Error values.                                                           *)
(***************************************************************************)
Nil == "nil"

ErrNotFound == "blockservice: key not found"

BsErrNotFound == "blockstore: block not found"

ErrAdmissibility == "verifcid: unsafe hash"

ErrMalformed == "block: malformed"

ErrDecrypt == "block: cannot decrypt"

ErrStore == "blockstore: failure"

ErrTransport == "exchange: failure"

ErrClosed == "blockservice is closed"

Panic == "panic: nil pointer dereference"

(***************************************************************************)
(* Identity gate and public/private projection (external packages          *)
(* verifcid, go-cid and go-block-format).                                  *)
(***************************************************************************)
ValidateCid(c) == IF MhType(c.pub) \in GoodHashes THEN Nil ELSE ErrAdmissibility

CidToPublic(c) == [pub |-> c.pub, key |-> NoKey]

Decrypt(raw, key) ==
    IF key = NoKey THEN raw
    ELSE IF raw.kind = "sealed" /\ key = SealKey(raw.of)
         THEN [kind |-> "plain", of |-> raw.of]
         ELSE DecryptErr

\* The caller-facing payload of a block.
RawData(b) == Decrypt(b.sealed, b.cid.key)

ToPublic(b) ==
    IF RawData(b) = DecryptErr
    THEN [err |-> ErrMalformed, blk |-> NoBlock]
    ELSE [err |-> Nil, blk |-> [cid |-> CidToPublic(b.cid), sealed |-> b.sealed]]

NewAutoDecryptedBlock(raw, c) ==
    IF Decrypt(raw, c.key) = DecryptErr
    THEN [err |-> ErrDecrypt, blk |-> NoBlock]
    ELSE [err |-> Nil, blk |-> [cid |-> c, sealed |-> raw]]

(***************************************************************************)
(* Bounds and input sets.                                                  *)
(***************************************************************************)
MaxBatch == 4

\* Longest key list handed to GetBlocks.
MaxKeys == 2

\* Most blocks the exchange sends on one stream.
MaxStream == 2

\* Longest key list handed to Session.GetBlocks.
MaxSessionKeys == 1

\* Most records handed to IpnsSelectorFunc.
MaxRecords == 3

\* Blocks handed to AddBlock: plain, sealed with its key, the public form of
\* the sealed one, one with a refused hash, one that is malformed, one that is
\* malformed and has a refused hash.
InputBlocks ==
    { [cid |-> [pub |-> "p1", key |-> NoKey], sealed |-> PubData("p1")],
      [cid |-> [pub |-> "p2", key |-> "k1"],  sealed |-> PubData("p2")],
      [cid |-> [pub |-> "p2", key |-> NoKey], sealed |-> PubData("p2")],
      [cid |-> [pub |-> "p3", key |-> NoKey], sealed |-> PubData("p3")],
      [cid |-> [pub |-> "p1", key |-> "k2"],  sealed |-> PubData("p1")],
      [cid |-> [pub |-> "p3", key |-> "k1"],  sealed |-> PubData("p3")] }

\* Blocks handed to AddBlocks.
BatchBlocks ==
    { b \in InputBlocks : ~(b.cid.pub = "p2" /\ b.cid.key = NoKey)
                           /\ ~(b.cid.pub = "p3" /\ b.cid.key # NoKey) }

SeqsUpTo(S, n) == UNION {[1..k -> S] : k \in 1..n}

Call(t, o, a) == [tgt |-> t, op |-> o, arg |-> a]

StoreCalls(calls) == {i \in 1..Len(calls) : calls[i].tgt = "store"}

ExchangeCalls(calls) == {i \in 1..Len(calls) : calls[i].tgt = "exchange"}

CallsOf(calls, t, o) == {i \in 1..Len(calls) : calls[i].tgt = t /\ calls[i].op = o}

(***************************************************************************)
(* State.                                                                  *)
(***************************************************************************)
VARIABLES
    blockstore,   \* blockService.blockstore: public identifier -> stored bytes
    exchange,     \* blockService.exchange: "nil", "open" or "closed"
    checkFirst,   \* blockService.checkFirst
    lastOp,       \* the last completed call: arguments, result, calls it made
    prevOp,       \* the AddBlock call right before lastOp, when both are AddBlock
                  \* (its block, result and calls)
    putOk,        \* blocks whose AddBlock returned nil, no DeleteBlock of them since
    \* one getBlocks call and its goroutine
    ks,           \* the cids asked for
    fetcher,      \* the fetcher f handed to getBlocks: "nil", "exchange", "session"
    pc,           \* where the goroutine is: "idle" (no call yet), "scan", "push",
                  \* "recv", "pushr", "done", "crashed"
    idx,          \* position of the local scan in ks2
    misses,       \* the public cids whose local Get failed
    pend,         \* the block the goroutine is about to send on out
    out,          \* the blocks the consumer received from out, in order
    closes,       \* how many times out was closed
    ctxDone,      \* whether ctx was cancelled
    rblocks,      \* the exchange's stream: "none", "open", "closed"
    rsent,        \* the public cids the exchange sent on rblocks, in order
    gbCalls,      \* the store and exchange calls the goroutine made
    lookups,      \* how each bs.Get of the scan ended: "hit", "miss" (not found),
                  \* "fail" (another store error)
    tasks,        \* goroutines started by the call
    lateSend,     \* whether a block was sent on out after out was closed
    fetched,      \* public cids of the "BlockService.BlockFetched" events (line 326)
    \* namesys: one call of IpnsSelectorFunc
    vals,         \* the raw records handed to IpnsSelectorFunc
    picked,       \* what the call returned (NotRun before it)
    \* two concurrent AddBlock calls
    race          \* procs: each call's position, block, injected fault, result;
                  \* calls: the store and exchange calls made, in order;
                  \* before: the blockstore when the calls started

svcVars == <<blockstore, exchange, checkFirst, lastOp, prevOp, putOk>>

readVars ==
    <<ks, fetcher, pc, idx, misses, pend, out, closes, ctxDone, rblocks, rsent, gbCalls,
      lookups, tasks, lateSend, fetched>>

selVars == <<vals, picked>>

raceVars == <<race>>

vars == <<svcVars, readVars, selVars, raceVars>>

NoOp ==
    [op |-> "none", blk |-> NoBlock, cid |-> NoCid, batch |-> <<>>, res |-> Nil,
     out |-> NoBlock, calls |-> <<>>, before |-> [p \in PubCids |-> Absent],
     fault |-> "none", at |-> 1, fetch |-> "none", via |-> "none"]

\* No getBlocks call has been made.
NoRead ==
    /\ ks = <<>>
    /\ fetcher = "nil"
    /\ pc = "idle"
    /\ idx = 1
    /\ misses = <<>>
    /\ pend = NoBlock
    /\ out = <<>>
    /\ closes = 0
    /\ ctxDone = FALSE
    /\ rblocks = "none"
    /\ rsent = <<>>
    /\ gbCalls = <<>>
    /\ lookups = <<>>
    /\ tasks = 0
    /\ lateSend = FALSE
    /\ fetched = {}

NotRun == [idx |-> -1, err |-> "not run"]

\* IpnsSelectorFunc has not been called.
NoSelect ==
    /\ vals = <<>>
    /\ picked = NotRun

Procs == {1, 2}

IdleCall == [pc |-> "idle", blk |-> NoBlock, fault |-> "none", res |-> Nil]

\* No concurrent AddBlock calls have been started.
NoRace ==
    race = [procs |-> [i \in Procs |-> IdleCall], calls |-> <<>>,
            before |-> [p \in PubCids |-> Absent]]

\* New / NewWriteThrough over an empty blockstore, with or without an exchange.
Init ==
    /\ blockstore = [p \in PubCids |-> Absent]
    /\ exchange \in {"nil", "open"}
    /\ checkFirst \in BOOLEAN
    /\ lastOp = NoOp
    /\ prevOp = NoOp
    /\ putOk = {}
    /\ NoRead
    /\ NoSelect
    /\ NoRace

(***************************************************************************)
(* AddBlock.                                                               *)
(***************************************************************************)
HashSecurityOff(c) == Nil

\* Lines 138-142 and 230-233 ("hash security"): the gate, run on the public cid
\* before the first store or exchange call.
HashSecurity(c) == ValidateCid(c)

SkipIfPresent(cf, has) == has

\* Lines 143-147: whether the write and the announcement are skipped.
SkipWrite(cf, has) == cf /\ has

AnnounceBestEffort(ex, fault) == Nil

\* Lines 155-160: the announcement, made after the write; HasBlock fails on an
\* exchange that was shut down, and any failure of it fails the call.
Announce(ex, fault) ==
    IF ex = "closed" \/ fault = "announce" THEN ErrClosed ELSE Nil

AddBlockRun(b, bs, cf, ex, fault) ==
    LET pubr == ToPublic(b)
        o    == pubr.blk
        c    == o.cid
        pre  == IF cf THEN <<Call("store", "Has", c.pub)>> ELSE <<>>
        put  == pre \o <<Call("store", "Put", c.pub)>>
        bs2  == [bs EXCEPT ![c.pub] = RawData(o)]
    IN  IF pubr.err # Nil THEN [res |-> pubr.err, store |-> bs, calls |-> <<>>]
        ELSE IF HashSecurity(c) # Nil
             THEN [res |-> HashSecurity(c), store |-> bs, calls |-> <<>>]
        ELSE IF cf /\ fault = "has" THEN [res |-> ErrStore, store |-> bs, calls |-> pre]
        ELSE IF SkipWrite(cf, bs[c.pub] # Absent)
             THEN [res |-> Nil, store |-> bs, calls |-> pre]
        ELSE IF fault = "put" THEN [res |-> ErrStore, store |-> bs, calls |-> put]
        ELSE IF ex = "nil" THEN [res |-> Panic, store |-> bs2, calls |-> put]
        ELSE [res |-> Announce(ex, fault), store |-> bs2,
              calls |-> put \o <<Call("exchange", "HasBlock", c.pub)>>]

AddBlock ==
    \E b \in InputBlocks, fault \in {"none", "has", "put", "announce"} :
        LET r == AddBlockRun(b, blockstore, checkFirst, exchange, fault)
        IN  /\ blockstore' = r.store
            /\ lastOp' = [NoOp EXCEPT !.op = "AddBlock", !.blk = b, !.res = r.res,
                                      !.calls = r.calls, !.before = blockstore,
                                      !.fault = fault]
            /\ prevOp' = IF lastOp.op = "AddBlock"
                         THEN [NoOp EXCEPT !.op = lastOp.op, !.blk = lastOp.blk,
                                           !.res = lastOp.res, !.calls = lastOp.calls]
                         ELSE NoOp
            /\ putOk' = IF r.res = Nil THEN putOk \cup {b} ELSE putOk
            /\ UNCHANGED <<exchange, checkFirst, readVars, selVars, raceVars>>

(***************************************************************************)
(* AddBlocks.  fault names the collaborator call that fails, at the at-th  *)
(* call of that kind.                                                      *)
(***************************************************************************)
RECURSIVE ToPublicAll(_)
\* Lines 164-175: the first block that does not project aborts the call.
ToPublicAll(bs) ==
    IF bs = <<>> THEN [err |-> Nil, blks |-> <<>>]
    ELSE LET h == ToPublic(Head(bs))
             t == ToPublicAll(Tail(bs))
         IN  IF h.err # Nil THEN [err |-> h.err, blks |-> <<>>]
             ELSE IF t.err # Nil THEN t
             ELSE [err |-> Nil, blks |-> <<h.blk>> \o t.blks]

ValidateFirst(bs2) ==
    IF bs2 = <<>> THEN Nil ELSE ValidateCid(Head(bs2).cid)

RECURSIVE ValidateAll(_)
\* Lines 177-182.
ValidateAll(bs2) ==
    IF bs2 = <<>> THEN Nil
    ELSE IF ValidateCid(Head(bs2).cid) # Nil THEN ValidateCid(Head(bs2).cid)
    ELSE ValidateAll(Tail(bs2))

FilterNothing(bs2, store) == bs2

RECURSIVE FilterAbsent(_, _)
\* Lines 186-194: the blocks the store does not hold (it is not changed
\* while the batch is filtered, so a block repeated in the batch stays).
FilterAbsent(bs2, store) ==
    IF bs2 = <<>> THEN <<>>
    ELSE (IF store[Head(bs2).cid.pub] = Absent THEN <<Head(bs2)>> ELSE <<>>)
         \o FilterAbsent(Tail(bs2), store)

RECURSIVE PutMany(_, _)
PutMany(toput, store) ==
    IF toput = <<>> THEN store
    ELSE PutMany(Tail(toput),
                 [store EXCEPT ![Head(toput).cid.pub] = RawData(Head(toput))])

AddBlocksRun(bs, store, cf, ex, fault, at) ==
    LET pubr    == ToPublicAll(bs)
        bs2     == pubr.blks
        nHas    == IF fault = "has" THEN (IF at <= Len(bs2) THEN at ELSE Len(bs2))
                   ELSE Len(bs2)
        hasErr  == fault = "has" /\ at <= Len(bs2)
        pre     == IF cf THEN [i \in 1..nHas |-> Call("store", "Has", bs2[i].cid.pub)]
                   ELSE <<>>
        toput   == IF cf THEN FilterAbsent(bs2, store) ELSE bs2
        put     == pre \o <<Call("store", "PutMany", [i \in 1..Len(toput) |-> toput[i].cid.pub])>>
        store2  == PutMany(toput, store)
        \* the announcements made: up to and including the first that fails
        annErr  == Len(toput) > 0 /\ (ex = "closed" \/ (fault = "announce" /\ at <= Len(toput)))
        nAnn    == IF ex = "closed" THEN 1
                   ELSE IF fault = "announce" /\ at <= Len(toput) THEN at
                   ELSE Len(toput)
        ann     == [i \in 1..nAnn |-> Call("exchange", "HasBlock", toput[i].cid.pub)]
    IN  IF pubr.err # Nil THEN [res |-> pubr.err, store |-> store, calls |-> <<>>]
        ELSE IF ValidateAll(bs2) # Nil
             THEN [res |-> ValidateAll(bs2), store |-> store, calls |-> <<>>]
        ELSE IF cf /\ hasErr THEN [res |-> ErrStore, store |-> store, calls |-> pre]
        ELSE IF fault = "put" THEN [res |-> ErrStore, store |-> store, calls |-> put]
        ELSE IF toput = <<>> THEN [res |-> Nil, store |-> store2, calls |-> put]
        ELSE IF ex = "nil" THEN [res |-> Panic, store |-> store2, calls |-> put]
        ELSE IF annErr THEN [res |-> ErrClosed, store |-> store2, calls |-> put \o ann]
        ELSE [res |-> Nil, store |-> store2, calls |-> put \o ann]

BatchFaults ==
    {<<"none", 1>>, <<"put", 1>>}
        \cup {<<k, i>> : k \in {"has", "announce"}, i \in 1..MaxBatch}

\* One batched write, applied to a service in any state it can be in.
AddBlocks ==
    /\ lastOp.op = "none"
    /\ \E bs \in SeqsUpTo(BatchBlocks, MaxBatch), f \in BatchFaults :
        LET r == AddBlocksRun(bs, blockstore, checkFirst, exchange, f[1], f[2])
        IN  /\ blockstore' = r.store
            /\ lastOp' = [NoOp EXCEPT !.op = "AddBlocks", !.batch = bs, !.res = r.res,
                                      !.calls = r.calls, !.before = blockstore,
                                      !.fault = f[1], !.at = f[2]]
            /\ prevOp' = NoOp
            /\ UNCHANGED <<exchange, checkFirst, putOk, readVars, selVars, raceVars>>

(***************************************************************************)
(* GetBlock / getBlock.  f is the fetcher ("nil" when there is none),      *)
(* fault a failure of the store's Get, fetch what the exchange answers.    *)
(***************************************************************************)
DecryptedPublic(raw, c, c2) == NewAutoDecryptedBlock(raw, c2)

\* Lines 237 and 253: the block handed back, built for the caller's cid.
Decrypted(raw, c, c2) == NewAutoDecryptedBlock(raw, c)

ConsultsOnAnyError(gerr, f) == gerr # Nil /\ f # "nil"

\* Line 240: the exchange is asked only when the store reported not-found and
\* there is a fetcher.
Consults(gerr, f) == gerr = BsErrNotFound /\ f # "nil"

getBlock(c, bs, f, fault, fetch) ==
    LET c2    == CidToPublic(c)
        get   == <<Call("store", "Get", c2.pub)>>
        gerr  == IF fault = "get" THEN ErrStore
                 ELSE IF bs[c2.pub] = Absent THEN BsErrNotFound ELSE Nil
        local == Decrypted(bs[c2.pub], c, c2)
        rem   == Decrypted(PubData(c2.pub), c, c2)
        both  == get \o <<Call("exchange", "GetBlock", c2.pub)>>
    IN  IF HashSecurity(c2) # Nil
        THEN [res |-> HashSecurity(c2), out |-> NoBlock, calls |-> <<>>]
        ELSE IF gerr = Nil THEN [res |-> local.err, out |-> local.blk, calls |-> get]
        ELSE IF Consults(gerr, f)
             THEN IF fetch = "notfound"
                  THEN [res |-> ErrNotFound, out |-> NoBlock, calls |-> both]
                  ELSE IF fetch = "err"
                  THEN [res |-> ErrTransport, out |-> NoBlock, calls |-> both]
                  ELSE [res |-> rem.err, out |-> rem.blk, calls |-> both]
        ELSE IF gerr = BsErrNotFound
             THEN [res |-> ErrNotFound, out |-> NoBlock, calls |-> get]
        ELSE [res |-> gerr, out |-> NoBlock, calls |-> get]

FetcherAlways(ex) == "fetcher"

\* Lines 219-222: the fetcher handed to getBlock.
Fetcher(ex) == IF ex # "nil" THEN "fetcher" ELSE "nil"

GetBlock ==
    \E c \in Cids, fault \in {"none", "get"}, fetch \in {"hit", "notfound", "err"} :
        LET r == getBlock(c, blockstore, Fetcher(exchange), fault, fetch)
        IN  /\ lastOp' = [NoOp EXCEPT !.op = "GetBlock", !.cid = c, !.res = r.res,
                                      !.out = r.out, !.calls = r.calls,
                                      !.before = blockstore, !.fault = fault,
                                      !.fetch = IF ExchangeCalls(r.calls) = {}
                                                THEN "none" ELSE fetch]
            /\ prevOp' = NoOp
            /\ UNCHANGED <<blockstore, exchange, checkFirst, putOk, readVars, selVars, raceVars>>

(***************************************************************************)
(* DeleteBlock and Close.                                                  *)
(***************************************************************************)
RemovedNothing(bs, p) == bs

\* Line 341: what a successful s.blockstore.DeleteBlock(c2) leaves.
Removed(bs, p) == [bs EXCEPT ![p] = Absent]

DeleteBlockRun(c, bs, fault) ==
    LET c2  == CidToPublic(c)
        del == <<Call("store", "DeleteBlock", c2.pub)>>
    IN  IF fault = "delete" THEN [res |-> ErrStore, store |-> bs, calls |-> del]
        ELSE IF bs[c2.pub] = Absent THEN [res |-> BsErrNotFound, store |-> bs, calls |-> del]
        ELSE [res |-> Nil, store |-> Removed(bs, c2.pub), calls |-> del]

DeleteBlock ==
    \E c \in Cids, fault \in {"none", "delete"} :
        LET r == DeleteBlockRun(c, blockstore, fault)
        IN  /\ blockstore' = r.store
            /\ lastOp' = [NoOp EXCEPT !.op = "DeleteBlock", !.cid = c, !.res = r.res,
                                      !.calls = r.calls, !.before = blockstore,
                                      !.fault = fault]
            /\ prevOp' = NoOp
            /\ putOk' = {b \in putOk : b.cid.pub # c.pub}
            /\ UNCHANGED <<exchange, checkFirst, readVars, selVars, raceVars>>

Close ==
    /\ exchange' = IF exchange = "nil" THEN "nil" ELSE "closed"
    /\ lastOp' = [NoOp EXCEPT !.op = "Close",
                              !.res = IF exchange = "nil" THEN Panic ELSE Nil,
                              !.calls = IF exchange = "nil" THEN <<>>
                                        ELSE <<Call("exchange", "Close", "none")>>,
                              !.before = blockstore]
    /\ prevOp' = NoOp
    /\ UNCHANGED <<blockstore, checkFirst, putOk, readVars, selVars, raceVars>>

(***************************************************************************)
(* GetBlocks / getBlocks: the call, its goroutine, the consumer of out,    *)
(* the cancellation of ctx and the exchange's stream.                      *)
(***************************************************************************)
Range(q) == {q[i] : i \in 1..Len(q)}

\* Line 275: ks2.
Ks2(k) == [i \in 1..Len(k) |-> CidToPublic(k[i])]

LastIndexOf(k, p) == CHOOSE i \in 1..Len(k) : k[i].pub = p /\ \A j \in (i+1)..Len(k) : k[j].pub # p

\* Lines 273-277 with 296 and 320: mapping[KeyString of p], the cid of ks that
\* was entered last under public form p.
Mapping(k, p) == k[LastIndexOf(k, p)]

ReturnAtEndOnly(path) ==
    /\ pc' = "done"
    /\ closes' = IF path = "end" THEN closes + 1 ELSE closes

\* Line 288: every return of the goroutine runs the deferred close(out).
Return(path) ==
    /\ pc' = "done"
    /\ closes' = closes + 1

\* Lines 271-287 and 334: the call builds ks2 and mapping, logs the cids the
\* gate refuses, starts the goroutine and returns out.
GetBlocksCall ==
    /\ pc = "idle"
    /\ \E k \in {<<>>} \cup SeqsUpTo(Cids, MaxKeys) :
        /\ ks' = k
        /\ fetcher' = IF exchange = "nil" THEN "nil" ELSE "exchange"
        /\ pc' = "scan"
        /\ tasks' = tasks + 1
        /\ lastOp' = [NoOp EXCEPT !.op = "GetBlocks", !.before = blockstore]
        /\ prevOp' = NoOp
    /\ UNCHANGED <<blockstore, exchange, checkFirst, putOk, selVars, raceVars, lookups, idx, misses, pend, out,
                   closes, ctxDone, rblocks, rsent, gbCalls, lateSend, fetched>>

LookupFailsNotFoundOnly(fault, held) == ~held

\* Lines 291-295: any error of bs.Get, not-found or not, makes the key a miss.
LookupFails(fault, held) == fault = "get" \/ ~held

\* Lines 290-300: one iteration of the local scan up to the select.
ScanStep ==
    /\ pc = "scan"
    /\ idx <= Len(ks)
    /\ \E fault \in {"none", "get"} :
        LET c    == Ks2(ks)[idx]
            held == blockstore[c.pub] # Absent
            gerr == LookupFails(fault, held)
            hit  == NewAutoDecryptedBlock(blockstore[c.pub], Mapping(ks, c.pub))
        IN  /\ gbCalls' = Append(gbCalls, Call("store", "Get", c.pub))
            /\ lookups' = Append(lookups, IF ~held THEN "miss"
                                          ELSE IF fault = "get" THEN "fail" ELSE "hit")
            /\ IF gerr
               THEN /\ misses' = Append(misses, c.pub)
                    /\ idx' = idx + 1
                    /\ UNCHANGED <<pend, pc>>
               ELSE IF hit.err # Nil
               THEN /\ idx' = idx + 1
                    /\ UNCHANGED <<misses, pend, pc>>
               ELSE /\ pend' = hit.blk
                    /\ pc' = "push"
                    /\ UNCHANGED <<misses, idx>>
    /\ UNCHANGED <<svcVars, selVars, raceVars, ks, fetcher, out, closes, ctxDone, rblocks, rsent, tasks,
                   lateSend, fetched>>

\* Lines 302-303: the consumer takes the local hit from out.
PushLocal ==
    /\ pc = "push"
    /\ out' = Append(out, pend)
    /\ lateSend' = (lateSend \/ closes > 0)
    /\ pend' = NoBlock
    /\ idx' = idx + 1
    /\ pc' = "scan"
    /\ UNCHANGED <<svcVars, selVars, raceVars, ks, fetcher, lookups, misses, closes, ctxDone, rblocks, rsent, gbCalls, tasks, fetched>>

\* Lines 304-305 and 329-330: ctx.Done() wins the select.
PushCancel ==
    /\ pc \in {"push", "pushr"}
    /\ ctxDone
    /\ Return("cancel")
    /\ pend' = NoBlock
    /\ UNCHANGED <<svcVars, selVars, raceVars, ks, fetcher, lookups, idx, misses, out, ctxDone, rblocks, rsent, gbCalls,
                   tasks, lateSend, fetched>>

\* Lines 309-311: nothing missed.
NoMisses ==
    /\ pc = "scan"
    /\ idx > Len(ks)
    /\ misses = <<>>
    /\ Return("end")
    /\ UNCHANGED <<svcVars, selVars, raceVars, ks, fetcher, lookups, idx, misses, pend, out, ctxDone, rblocks, rsent,
                   gbCalls, tasks, lateSend, fetched>>

\* Lines 313-317: the misses go to the fetcher in one call.  Without a
\* fetcher the call dereferences nil: the goroutine panics, its deferred
\* close(out) runs and the process ends.
FetchMany ==
    /\ pc = "scan"
    /\ idx > Len(ks)
    /\ misses # <<>>
    /\ IF fetcher = "nil"
       THEN /\ pc' = "crashed"
            /\ closes' = closes + 1
            /\ UNCHANGED <<rblocks, gbCalls>>
       ELSE /\ gbCalls' = Append(gbCalls, Call("exchange", "GetBlocks", misses))
            /\ \E answer \in {"stream", "err"} :
                IF answer = "err"
                THEN Return("error") /\ UNCHANGED rblocks
                ELSE pc' = "recv" /\ rblocks' = "open" /\ UNCHANGED closes
    /\ UNCHANGED <<svcVars, selVars, raceVars, ks, fetcher, lookups, idx, misses, pend, out, ctxDone, rsent, tasks, lateSend, fetched>>

\* Lines 319-324: the exchange sends a block it was asked for (it may repeat
\* one and may leave others out); the goroutine rebuilds it for the caller.
ExchangeSend ==
    /\ pc = "recv"
    /\ rblocks = "open"
    /\ Len(rsent) < MaxStream
    /\ \E p \in Range(misses) :
        LET b == NewAutoDecryptedBlock(PubData(p), Mapping(ks, p))
        IN  /\ rsent' = Append(rsent, p)
            /\ IF b.err # Nil
               THEN UNCHANGED <<pend, pc, fetched>>
               ELSE /\ pend' = b.blk
                    /\ pc' = "pushr"
                    /\ fetched' = fetched \cup {p}
    /\ UNCHANGED <<svcVars, selVars, raceVars, ks, fetcher, lookups, idx, misses, out, closes, ctxDone, rblocks, gbCalls,
                   tasks, lateSend>>

\* Lines 327-328: the consumer takes the fetched block from out.
PushRemote ==
    /\ pc = "pushr"
    /\ out' = Append(out, pend)
    /\ lateSend' = (lateSend \/ closes > 0)
    /\ pend' = NoBlock
    /\ pc' = "recv"
    /\ UNCHANGED <<svcVars, selVars, raceVars, ks, fetcher, lookups, idx, misses, closes, ctxDone, rblocks, rsent, gbCalls,
                   tasks, fetched>>

\* The exchange closes its stream.
ExchangeClose ==
    /\ pc = "recv"
    /\ rblocks = "open"
    /\ rblocks' = "closed"
    /\ UNCHANGED <<svcVars, selVars, raceVars, ks, fetcher, lookups, pc, idx, misses, pend, out, closes, ctxDone, rsent,
                   gbCalls, tasks, lateSend, fetched>>

\* Line 319: the range over rblocks ends when the stream is closed.
StreamEnd ==
    /\ pc = "recv"
    /\ rblocks = "closed"
    /\ Return("end")
    /\ UNCHANGED <<svcVars, selVars, raceVars, ks, fetcher, lookups, idx, misses, pend, out, ctxDone, rblocks, rsent,
                   gbCalls, tasks, lateSend, fetched>>

\* The caller cancels ctx.
Cancel ==
    /\ pc # "idle"
    /\ ~ctxDone
    /\ ctxDone' = TRUE
    /\ UNCHANGED <<svcVars, selVars, raceVars, ks, fetcher, lookups, pc, idx, misses, pend, out, closes, rblocks, rsent,
                   gbCalls, tasks, lateSend, fetched>>

(***************************************************************************)
(* Session: NewSession and the two reads of a Session.  scoped tells       *)
(* whether the service's exchange is a SessionExchange.                    *)
(***************************************************************************)
NewSessionAlwaysScoped(ex, scoped) == "session"

\* Lines 115-128: the fetcher of the new Session (its blockstore is the
\* service's).  A nil exchange is no SessionExchange and is kept as it is.
NewSession(ex, scoped) ==
    IF ex = "nil" THEN "nil"
    ELSE IF scoped THEN "session"
    ELSE "exchange"

\* Lines 360-362, on a Session just made from the service.
SessionGetBlock ==
    \E c \in Cids, fault \in {"none", "get"}, fetch \in {"hit", "notfound", "err"},
       scoped \in BOOLEAN :
        LET ses == NewSession(exchange, scoped)
            r   == getBlock(c, blockstore, ses, fault, fetch)
        IN  /\ lastOp' = [NoOp EXCEPT !.op = "SessionGetBlock", !.cid = c, !.res = r.res,
                                      !.out = r.out, !.calls = r.calls,
                                      !.before = blockstore, !.fault = fault,
                                      !.fetch = IF ExchangeCalls(r.calls) = {}
                                                THEN "none" ELSE fetch,
                                      !.via = ses]
            /\ prevOp' = NoOp
            /\ UNCHANGED <<blockstore, exchange, checkFirst, putOk, readVars, selVars, raceVars>>

\* Lines 365-367, on a Session just made from the service: getBlocks with the
\* Session's blockstore and fetcher.
SessionGetBlocks ==
    /\ pc = "idle"
    /\ \E k \in {<<>>} \cup SeqsUpTo(Cids, MaxSessionKeys), scoped \in BOOLEAN :
        /\ ks' = k
        /\ fetcher' = NewSession(exchange, scoped)
        /\ pc' = "scan"
        /\ tasks' = tasks + 1
        /\ lastOp' = [NoOp EXCEPT !.op = "SessionGetBlocks", !.before = blockstore,
                                  !.via = NewSession(exchange, scoped)]
        /\ prevOp' = NoOp
    /\ UNCHANGED <<blockstore, exchange, checkFirst, putOk, selVars, raceVars, lookups, idx, misses, pend, out,
                   closes, ctxDone, rblocks, rsent, gbCalls, lateSend, fetched>>

(***************************************************************************)
(* namesys (src/namesys/selector.go): the choice of the best IPNS record.  *)
(* A raw record is a number, ordered as bytes.Compare orders the bytes.    *)
(***************************************************************************)
\* Raw records: one that does not unmarshal, one whose EOL does not parse
\* (with the highest sequence number), and records that share sequence
\* numbers and EOLs; "t2b" writes the instant of "t2" with another offset.
RawValues == 1..7

NilEntry == [seq |-> 0, validity |-> "nil"]

\* proto.Unmarshal into a pb.IpnsEntry: NilEntry where it fails.
Unmarshal(v) ==
    CASE v = 1 -> NilEntry
      [] v = 2 -> [seq |-> 2, validity |-> "bad"]
      [] v = 3 -> [seq |-> 0, validity |-> "t2"]
      [] v = 4 -> [seq |-> 1, validity |-> "t1"]
      [] v = 5 -> [seq |-> 1, validity |-> "t2"]
      [] v = 6 -> [seq |-> 1, validity |-> "t2b"]
      [] OTHER -> [seq |-> 1, validity |-> "t1"]

\* u.ParseRFC3339: the instant in UTC, or an error.
ParseRFC3339(str) ==
    CASE str = "t1"  -> [t |-> 1, err |-> Nil]
      [] str = "t2"  -> [t |-> 2, err |-> Nil]
      [] str = "t2b" -> [t |-> 2, err |-> Nil]
      [] OTHER       -> [t |-> 0, err |-> "parse error"]

CompareNever(a, b) == 0

\* Line 51: bytes.Compare(vals[i], vals[besti]).
Compare(a, b) == IF a > b THEN 1 ELSE IF a < b THEN -1 ELSE 0

ErrNoUsable == "no usable records in given set"

RECURSIVE selectLoop(_, _, _, _, _)
\* Lines 34-56: the loop from index i (as in the code, from 0) on.
selectLoop(recs, vs, i, bestSeq, besti) ==
    IF i >= Len(recs) THEN besti
    ELSE LET r  == recs[i + 1]
             rt == ParseRFC3339(r.validity)
         IN  IF r = NilEntry \/ r.seq < bestSeq
             THEN selectLoop(recs, vs, i + 1, bestSeq, besti)
             ELSE IF rt.err # Nil
             THEN selectLoop(recs, vs, i + 1, bestSeq, besti)
             ELSE IF besti = -1 \/ r.seq > bestSeq
             THEN selectLoop(recs, vs, i + 1, r.seq, i)
             ELSE LET bestt == ParseRFC3339(recs[besti + 1].validity)
                  IN  IF rt.t > bestt.t
                      THEN selectLoop(recs, vs, i + 1, bestSeq, i)
                      ELSE IF rt.t = bestt.t /\ Compare(vs[i + 1], vs[besti + 1]) > 0
                      THEN selectLoop(recs, vs, i + 1, bestSeq, i)
                      ELSE selectLoop(recs, vs, i + 1, bestSeq, besti)

\* Lines 30-63.
selectRecord(recs, vs) ==
    LET besti == selectLoop(recs, vs, 0, 0, -1)
    IN  IF besti = -1 THEN [idx |-> 0, err |-> ErrNoUsable]
        ELSE [idx |-> besti, err |-> Nil]

\* Lines 16-25: recs.
Entries(vs) == [i \in 1..Len(vs) |-> Unmarshal(vs[i])]

\* Lines 15-28.
IpnsSelectorFunc ==
    /\ picked = NotRun
    /\ picked' = selectRecord(Entries(vals), vals)
    /\ UNCHANGED <<svcVars, readVars, raceVars, vals>>

(***************************************************************************)
(* Two AddBlock calls running concurrently (lines 132-161), one step per   *)
(* call on the blockstore or the exchange.  Each call has its block and    *)
(* the collaborator failure injected into it.                              *)
(***************************************************************************)
Step(i, pr, calls) ==
    race' = [race EXCEPT !.procs[i] = pr, !.calls = calls]

Finish(i, r, calls) ==
    Step(i, [race.procs[i] EXCEPT !.pc = "done", !.res = r], calls)

\* Lines 133-142: the projection and the gate.  No call starts once the
\* program has ended in a panic.
PutStart ==
    \E i \in Procs, b \in InputBlocks, fault \in {"none", "has", "put", "announce"} :
        LET pubr == ToPublic(b)
            pr   == [race.procs[i] EXCEPT !.blk = b, !.fault = fault]
        IN  /\ race.procs[i].pc = "idle"
            /\ \A j \in Procs : race.procs[j].res # Panic
            /\ IF pubr.err # Nil
               THEN Step(i, [pr EXCEPT !.pc = "done", !.res = pubr.err], race.calls)
               ELSE IF HashSecurity(pubr.blk.cid) # Nil
               THEN Step(i, [pr EXCEPT !.pc = "done",
                                       !.res = HashSecurity(pubr.blk.cid)], race.calls)
               ELSE Step(i, [pr EXCEPT !.pc = IF checkFirst THEN "has" ELSE "put"],
                         race.calls)
            /\ UNCHANGED <<svcVars, readVars, selVars>>

\* Lines 143-147: s.blockstore.Has(c).
PutHas ==
    \E i \in Procs :
        LET pr    == race.procs[i]
            p     == ToPublic(pr.blk).blk.cid.pub
            calls == Append(race.calls, Call("store", "Has", p))
        IN  /\ pr.pc = "has"
            /\ IF pr.fault = "has" THEN Finish(i, ErrStore, calls)
               ELSE IF SkipWrite(checkFirst, blockstore[p] # Absent)
               THEN Finish(i, Nil, calls)
               ELSE Step(i, [pr EXCEPT !.pc = "put"], calls)
            /\ UNCHANGED <<svcVars, readVars, selVars>>

\* Lines 149-151: s.blockstore.Put(o).
PutWrite ==
    \E i \in Procs :
        LET pr    == race.procs[i]
            o     == ToPublic(pr.blk).blk
            calls == Append(race.calls, Call("store", "Put", o.cid.pub))
        IN  /\ pr.pc = "put"
            /\ IF pr.fault = "put"
               THEN Finish(i, ErrStore, calls) /\ UNCHANGED blockstore
               ELSE /\ Step(i, [pr EXCEPT !.pc = "announce"], calls)
                    /\ blockstore' = [blockstore EXCEPT ![o.cid.pub] = RawData(o)]
            /\ UNCHANGED <<exchange, checkFirst, lastOp, prevOp, putOk, readVars, selVars>>

\* Lines 155-160: s.exchange.HasBlock(o).  On a nil exchange the call
\* panics, which ends the program and with it the other call.
PutAnnounce ==
    \E i \in Procs :
        LET pr    == race.procs[i]
            p     == ToPublic(pr.blk).blk.cid.pub
            calls == Append(race.calls, Call("exchange", "HasBlock", p))
        IN  /\ pr.pc = "announce"
            /\ IF exchange = "nil"
               THEN race' = [race EXCEPT !.procs =
                        [j \in Procs |->
                            IF j = i THEN [pr EXCEPT !.pc = "done", !.res = Panic]
                            ELSE IF race.procs[j].pc \in {"idle", "done"} THEN race.procs[j]
                            ELSE [race.procs[j] EXCEPT !.pc = "killed"]]]
               ELSE Finish(i, Announce(exchange, pr.fault), calls)
            /\ UNCHANGED <<svcVars, readVars, selVars>>

Next ==
    \/ AddBlock
    \/ GetBlock
    \/ DeleteBlock
    \/ Close

Spec == Init /\ [][Next]_vars

(***************************************************************************)
(* The batched write, from every state the service can be in: any set of   *)
(* admissible blocks stored, either write mode, exchange absent, open or   *)
(* closed.                                                                 *)
(***************************************************************************)
ReachableStores ==
    {s \in [PubCids -> {Absent} \cup {PubData(p) : p \in PubCids}] :
        \A p \in PubCids :
            /\ s[p] \in {Absent, PubData(p)}
            /\ ValidateCid([pub |-> p, key |-> NoKey]) # Nil => s[p] = Absent}

InitAny ==
    /\ blockstore \in ReachableStores
    /\ exchange \in {"nil", "open", "closed"}
    /\ checkFirst \in BOOLEAN
    /\ lastOp = NoOp
    /\ prevOp = NoOp
    /\ putOk = {}
    /\ NoRead
    /\ NoSelect
    /\ NoRace

NextAddBlocks == AddBlocks

SpecAddBlocks == InitAny /\ [][NextAddBlocks]_vars

(***************************************************************************)
(* The reads, from every state the service can be in: single reads, then   *)
(* one batched read with its goroutine, consumer, cancellation and         *)
(* exchange stream.  A single read shares no state with the goroutine, so  *)
(* it is taken before the batched read starts.                             *)
(***************************************************************************)
SingleRead == pc = "idle" /\ GetBlock

\* The steps the goroutine takes on its own.
TaskStep ==
    \/ ScanStep
    \/ NoMisses
    \/ FetchMany
    \/ PushCancel
    \/ StreamEnd

NextReads ==
    \/ SingleRead
    \/ GetBlocksCall
    \/ ScanStep
    \/ PushLocal
    \/ PushCancel
    \/ NoMisses
    \/ FetchMany
    \/ ExchangeSend
    \/ PushRemote
    \/ ExchangeClose
    \/ StreamEnd
    \/ Cancel

SpecReads == InitAny /\ [][NextReads]_vars

\* The scheduler runs a goroutine that can take a step; nothing makes the
\* consumer read, the caller cancel or the exchange send or close.
FairReads == SpecReads /\ WF_vars(TaskStep)

(***************************************************************************)
(* The reads of a Session, from every state the service can be in.         *)
(***************************************************************************)
SessionRead == pc = "idle" /\ SessionGetBlock

NextSession ==
    \/ SessionRead
    \/ SessionGetBlocks
    \/ ScanStep
    \/ PushLocal
    \/ PushCancel
    \/ NoMisses
    \/ FetchMany
    \/ ExchangeSend
    \/ PushRemote
    \/ ExchangeClose
    \/ StreamEnd
    \/ Cancel

SpecSession == InitAny /\ [][NextSession]_vars

(***************************************************************************)
(* The record selector, on every list of raw records up to MaxRecords.     *)
(***************************************************************************)
InitSelect ==
    /\ blockstore = [p \in PubCids |-> Absent]
    /\ exchange = "open"
    /\ checkFirst = TRUE
    /\ lastOp = NoOp
    /\ prevOp = NoOp
    /\ putOk = {}
    /\ NoRead
    /\ vals \in {<<>>} \cup SeqsUpTo(RawValues, MaxRecords)
    /\ picked = NotRun
    /\ NoRace

NextSelect == IpnsSelectorFunc

SpecSelect == InitSelect /\ [][NextSelect]_vars

(***************************************************************************)
(* Two concurrent AddBlock calls, from every state the service can be in.  *)
(***************************************************************************)
InitRace ==
    /\ blockstore \in ReachableStores
    /\ exchange \in {"nil", "open", "closed"}
    /\ checkFirst \in BOOLEAN
    /\ lastOp = NoOp
    /\ prevOp = NoOp
    /\ putOk = {}
    /\ NoRead
    /\ NoSelect
    /\ race = [procs |-> [i \in Procs |-> IdleCall], calls |-> <<>>,
               before |-> blockstore]

NextRace ==
    \/ PutStart
    \/ PutHas
    \/ PutWrite
    \/ PutAnnounce

SpecRace == InitRace /\ [][NextRace]_vars

(***************************************************************************)
(* Properties of the single-block calls (specification Spec) and of the    *)
(* batched write (specification SpecAddBlocks).  A call is fault-free when *)
(* no collaborator failure was injected into it (lastOp.fault = "none").   *)
(***************************************************************************)
PublicOf(b) == ToPublic(b).blk.cid

Admissible(b) == ToPublic(b).err = Nil /\ ValidateCid(PublicOf(b)) = Nil

Announcements(calls) == Cardinality(CallsOf(calls, "exchange", "HasBlock"))

StoreWrites(calls) ==
    Cardinality(CallsOf(calls, "store", "Put") \cup CallsOf(calls, "store", "PutMany"))

\* C1: round trip.  When AddBlock(b) returned nil and no DeleteBlock addressed
\* b's identifier since, a GetBlock of b's cid in which the store does not fail
\* returns a block (no ErrNotFound, no error) that carries the cid the caller
\* passed and whose payload is b's caller-facing payload.
C1_RoundTrip ==
    (lastOp.op = "GetBlock" /\ lastOp.fault = "none") =>
        \A b \in putOk :
            b.cid = lastOp.cid =>
                /\ lastOp.res = Nil
                /\ lastOp.out.cid = lastOp.cid
                /\ RawData(lastOp.out) = RawData(b)

C1_Witness ==
    /\ lastOp.op = "GetBlock"
    /\ lastOp.fault = "none"
    /\ lastOp.res = Nil
    /\ \E b \in putOk :
        /\ b.cid = lastOp.cid
        /\ b.cid.key # NoKey
        /\ RawData(lastOp.out) = [kind |-> "plain", of |-> b.cid.pub]

\* C2: when the public form of the identifier fails the gate, AddBlock and
\* GetBlock return the gate's error, make no call on the blockstore or on the
\* exchange, and leave the blockstore as it was.
C2_GateBeforeCalls ==
    LET rejected ==
            \/ /\ lastOp.op = "AddBlock"
               /\ ToPublic(lastOp.blk).err = Nil
               /\ ValidateCid(PublicOf(lastOp.blk)) # Nil
            \/ /\ lastOp.op = "GetBlock"
               /\ ValidateCid(CidToPublic(lastOp.cid)) # Nil
    IN  rejected =>
            /\ lastOp.res = ErrAdmissibility
            /\ lastOp.calls = <<>>
            /\ blockstore = lastOp.before

C2_Witness ==
    /\ lastOp.op = "AddBlock"
    /\ ToPublic(lastOp.blk).err = Nil
    /\ ValidateCid(PublicOf(lastOp.blk)) # Nil
    /\ lastOp.res = ErrAdmissibility
    /\ prevOp.op = "AddBlock"
    /\ prevOp.res = Nil
    /\ Announcements(prevOp.calls) = 1

\* C3: AddBlock is idempotent.  Calling it twice in sequence with the same
\* admissible block returns nil both times and leaves the blockstore as the
\* first call left it; with checkFirst the second call makes no store write
\* and no announcement, so the block is announced once (by the first call, when
\* it found the identifier absent).  Stated for calls in which no collaborator
\* fails: no injected store or announcement failure, exchange not shut down.
C3_PutIdempotent ==
    LET healthy == /\ lastOp.op = "AddBlock"
                   /\ Admissible(lastOp.blk)
                   /\ lastOp.fault = "none"
                   /\ exchange # "closed"
        twice   == /\ healthy
                   /\ prevOp.op = "AddBlock"
                   /\ lastOp.blk = prevOp.blk
                   /\ prevOp.res \notin {ErrStore, ErrClosed}
    IN  /\ healthy => lastOp.res = Nil
        /\ twice =>
            /\ prevOp.res = Nil
            /\ blockstore = lastOp.before
            /\ checkFirst =>
                /\ StoreWrites(lastOp.calls) = 0
                /\ Announcements(lastOp.calls) = 0
                /\ Announcements(prevOp.calls) + Announcements(lastOp.calls) =
                       IF StoreWrites(prevOp.calls) = 1 THEN 1 ELSE 0

\* What the code gives for C3: the same, on a service that has an exchange.
C3_IdempotentWithExchange == exchange # "nil" => C3_PutIdempotent

\* C4: without checkFirst (write-through) a fault-free AddBlock of an
\* admissible block on a service that has an exchange never asks the store
\* whether it holds the block: it writes the block and announces it once, also
\* when the identifier is already held.  With checkFirst an AddBlock of an
\* identifier already held makes the existence check only: no write, no
\* announcement.
C4_WriteThroughAnnounces ==
    ( /\ lastOp.op = "AddBlock"
      /\ Admissible(lastOp.blk)
      /\ lastOp.fault = "none" ) =>
        LET p == PublicOf(lastOp.blk).pub
        IN  /\ (~checkFirst /\ exchange # "nil") =>
                /\ lastOp.calls = <<Call("store", "Put", p),
                                    Call("exchange", "HasBlock", p)>>
                /\ blockstore[p] = PubData(p)
            /\ (checkFirst /\ lastOp.before[p] # Absent) =>
                /\ lastOp.calls = <<Call("store", "Has", p)>>
                /\ lastOp.res = Nil

C4_Witness ==
    /\ ~checkFirst
    /\ exchange = "open"
    /\ lastOp.op = "AddBlock"
    /\ Admissible(lastOp.blk)
    /\ lastOp.fault = "none"
    /\ lastOp.before[PublicOf(lastOp.blk).pub] # Absent
    /\ Announcements(lastOp.calls) = 1
    /\ StoreWrites(lastOp.calls) = 1
    /\ lastOp.res = Nil

\* C5: AddBlocks is all-or-nothing with respect to admissibility.  When any
\* block of the batch, at any position, does not project to its public form
\* or fails the gate, the call returns an error, makes no store or exchange
\* call (nothing is persisted, nothing announced) and the blockstore is as
\* before, the blocks ahead of the failing one included.
C5_BatchAllOrNothing ==
    ( /\ lastOp.op = "AddBlocks"
      /\ \E i \in 1..Len(lastOp.batch) : ~Admissible(lastOp.batch[i]) ) =>
        /\ lastOp.res # Nil
        /\ lastOp.res # Panic
        /\ lastOp.calls = <<>>
        /\ blockstore = lastOp.before

C5_Witness ==
    /\ lastOp.op = "AddBlocks"
    /\ Len(lastOp.batch) = 4
    /\ Admissible(lastOp.batch[1])
    /\ Admissible(lastOp.batch[2])
    /\ lastOp.batch[1].cid.pub # lastOp.batch[2].cid.pub
    /\ ToPublic(lastOp.batch[3]).err = Nil
    /\ ~Admissible(lastOp.batch[3])
    /\ lastOp.before = [p \in PubCids |-> Absent]
    /\ blockstore = lastOp.before
    /\ lastOp.res = ErrAdmissibility

\* C7: on a service without an exchange, a GetBlock of an admissible
\* identifier the blockstore does not hold (and whose Get does not fail)
\* returns ErrNotFound and makes no call on the exchange.
C7_OfflineNotFound ==
    ( /\ lastOp.op = "GetBlock"
      /\ exchange = "nil"
      /\ ValidateCid(CidToPublic(lastOp.cid)) = Nil
      /\ lastOp.before[lastOp.cid.pub] = Absent
      /\ lastOp.fault = "none" ) =>
        /\ lastOp.res = ErrNotFound
        /\ lastOp.out = NoBlock
        /\ ExchangeCalls(lastOp.calls) = {}

C7_Witness ==
    /\ lastOp.op = "GetBlock"
    /\ exchange = "nil"
    /\ lastOp.cid = [pub |-> "p2", key |-> "k1"]
    /\ lastOp.before["p2"] = Absent
    /\ lastOp.before["p1"] # Absent
    /\ lastOp.fault = "none"
    /\ lastOp.res = ErrNotFound
    /\ lastOp.calls = <<Call("store", "Get", "p2")>>

(***************************************************************************)
(* Properties of the reads (specifications SpecReads and FairReads).       *)
(***************************************************************************)
Exited == pc \in {"done", "crashed"}

\* C6: the stream of GetBlocks(ks) never carries a block whose cid is not in
\* ks and never carries more than one block for the same cid.
C6_OnlyAskedAtMostOnce ==
    /\ \A i \in 1..Len(out) : out[i].cid \in Range(ks)
    /\ \A i, j \in 1..Len(out) : i # j => out[i].cid # out[j].cid

\* C8: once ctx is cancelled during a batched read, the goroutine exits and
\* out is closed, whatever the consumer and the exchange do.
C8_CancelEndsTask == (ctxDone /\ pc # "idle") ~> (Exited /\ closes = 1)

\* C9: a GetBlocks call starts exactly one goroutine; out is closed exactly
\* once when the goroutine has exited, on whichever path it did, not before,
\* and no block is sent on out after the close.
C9_ClosedOnceOnExit ==
    /\ pc # "idle" => tasks = 1
    /\ Exited => closes = 1
    /\ ~Exited => closes = 0
    /\ ~lateSend

\* A cancellation during the second push: one block was delivered, the scan
\* was not finished, out is closed.
C9_Witness ==
    /\ pc = "done"
    /\ ctxDone
    /\ Len(ks) = 2
    /\ idx = 2
    /\ Len(out) = 1
    /\ closes = 1
    /\ tasks = 1

\* The read a caller makes afterwards on a service without an exchange.
OfflineGet(c) == getBlock(c, blockstore, "nil", "none", "none")

FetchedOut == {i \in 1..Len(out) : out[i].cid.pub \in fetched
                                   /\ lastOp.before[out[i].cid.pub] = Absent}

\* C10: a read the exchange satisfied leaves the blockstore alone.  After a
\* GetBlock answered by the exchange, and after every step of a batched read
\* in which the exchange delivered a block for cid X, no store write was made,
\* the blockstore is what it was before the call, and a GetBlock of X without
\* a fetcher returns ErrNotFound (X not having been held before the call).
C10_FetchDoesNotStore ==
    /\ ( /\ lastOp.op = "GetBlock"
         /\ lastOp.fetch = "hit"
         /\ lastOp.res = Nil ) =>
            /\ blockstore = lastOp.before
            /\ \A i \in StoreCalls(lastOp.calls) : lastOp.calls[i].op = "Get"
            /\ OfflineGet(lastOp.cid).res = ErrNotFound
    /\ ( /\ lastOp.op = "GetBlocks"
         /\ fetched # {} ) =>
            /\ blockstore = lastOp.before
            /\ \A i \in StoreCalls(gbCalls) : gbCalls[i].op = "Get"
            /\ \A i \in FetchedOut : OfflineGet(out[i].cid).res = ErrNotFound

\* What the code gives for C10: the blockstore is never written by a read, and
\* the follow-up GetBlock returns ErrNotFound for every cid that passes the
\* gate (for one that does not, it returns the gate's error).
C10_ReadsLeaveStore ==
    /\ lastOp.op \in {"GetBlock", "GetBlocks"} => blockstore = lastOp.before
    /\ \A i \in StoreCalls(gbCalls) : gbCalls[i].op = "Get"
    /\ lastOp.op = "GetBlocks" =>
        \A i \in FetchedOut :
            OfflineGet(out[i].cid).res =
                IF ValidateCid(CidToPublic(out[i].cid)) = Nil
                THEN ErrNotFound ELSE ErrAdmissibility

(***************************************************************************)
(* Failure handling of the writes, the gate on every path, DeleteBlock.    *)
(***************************************************************************)
Announced(calls) == CallsOf(calls, "exchange", "HasBlock") # {}

\* C11: when the announcement of AddBlock fails (always so once Close has
\* shut the exchange down), AddBlock returns an error, the block written just
\* before stays in the blockstore, no DeleteBlock call is made on the store,
\* and a GetBlock of the caller's cid is answered from the blockstore.
C11_AnnounceFailureKeepsBlock ==
    ( /\ lastOp.op = "AddBlock"
      /\ Announced(lastOp.calls)
      /\ (exchange = "closed" \/ lastOp.fault = "announce") ) =>
        LET p == PublicOf(lastOp.blk).pub
        IN  /\ lastOp.res # Nil
            /\ lastOp.res = ErrClosed
            /\ blockstore[p] = PubData(p)
            /\ CallsOf(lastOp.calls, "store", "DeleteBlock") = {}
            /\ OfflineGet(lastOp.blk.cid).res = Nil
            /\ OfflineGet(lastOp.blk.cid).out.cid = lastOp.blk.cid

C11_Witness ==
    /\ lastOp.op = "AddBlock"
    /\ exchange = "closed"
    /\ lastOp.fault = "none"
    /\ lastOp.res = ErrClosed
    /\ lastOp.before[lastOp.blk.cid.pub] = Absent
    /\ blockstore[lastOp.blk.cid.pub] = PubData(lastOp.blk.cid.pub)
    /\ OfflineGet(lastOp.blk.cid).res = Nil

PassesGate(p) == ValidateCid([pub |-> p, key |-> NoKey]) = Nil

\* C12: in a batched read a cid whose public form the gate refuses is dropped
\* from the request: the goroutine never looks it up in the blockstore, never
\* puts it in the miss list it sends to the exchange, and no block is sent on
\* out for it.
C12_RefusedKeysDropped ==
    /\ \A i \in CallsOf(gbCalls, "store", "Get") : PassesGate(gbCalls[i].arg)
    /\ \A i \in CallsOf(gbCalls, "exchange", "GetBlocks") :
           \A p \in Range(gbCalls[i].arg) : PassesGate(p)
    /\ \A i \in 1..Len(out) : PassesGate(out[i].cid.pub)

\* What the code gives for C12: the keys that pass the gate are resolved
\* whatever else the batch holds; with the consumer reading to the end and no
\* store failure, every such key held locally and decryptable with the cid
\* entered last under its public form is on out when the scan has passed it.
C12_ValidKeysResolved ==
    \A i \in 1..Len(ks) :
        ( /\ i < idx
          /\ PassesGate(ks[i].pub)
          /\ lastOp.op = "GetBlocks"
          /\ blockstore[ks[i].pub] # Absent
          /\ ks[i].pub \notin Range(misses)
          /\ NewAutoDecryptedBlock(blockstore[ks[i].pub], Mapping(ks, ks[i].pub)).err = Nil ) =>
            \E j \in 1..Len(out) : out[j].cid.pub = ks[i].pub

\* The calls of the last operation that address a block by identifier.
AddressedCalls(calls) == {i \in 1..Len(calls) : calls[i].op # "Close"}

\* C13: every operation that addresses the blockstore or the exchange by
\* identifier gates the public form first: no call on the store or on the
\* exchange is ever made with an identifier the gate refuses.
C13_EveryCallGated ==
    \A i \in AddressedCalls(lastOp.calls) : PassesGate(lastOp.calls[i].arg)

\* What the code gives for C13: AddBlock and GetBlock are gated.
C13_PutAndGetGated ==
    lastOp.op \in {"AddBlock", "GetBlock"} => C13_EveryCallGated

\* C14: DeleteBlock makes one call, the store's DeleteBlock on the public
\* form of the cid, and none on the exchange, with or without checkFirst and
\* whether or not the deletion succeeds.  When it succeeds the block held
\* under the public form is gone, the rest of the blockstore is untouched, and
\* a GetBlock of the same cid without a fetcher returns ErrNotFound; when it
\* fails the blockstore is as before.
C14_DeleteIsLocal ==
    lastOp.op = "DeleteBlock" =>
        LET p == CidToPublic(lastOp.cid).pub
        IN  /\ lastOp.calls = <<Call("store", "DeleteBlock", p)>>
            /\ ExchangeCalls(lastOp.calls) = {}
            /\ lastOp.res = Nil =>
                /\ lastOp.before[p] # Absent
                /\ blockstore = [lastOp.before EXCEPT ![p] = Absent]
                /\ OfflineGet(lastOp.cid).res = ErrNotFound
                /\ OfflineGet(lastOp.cid).out = NoBlock
            /\ lastOp.res # Nil => blockstore = lastOp.before

C14_Witness ==
    /\ lastOp.op = "DeleteBlock"
    /\ lastOp.res = Nil
    /\ lastOp.cid = [pub |-> "p2", key |-> "k1"]
    /\ lastOp.before["p2"] = PubData("p2")
    /\ blockstore["p2"] = Absent
    /\ blockstore["p1"] = PubData("p1")
    /\ exchange = "open"
    /\ checkFirst

(***************************************************************************)
(* Session reads (specification SpecSession).                              *)
(***************************************************************************)
\* What blockService.GetBlock returns for the request the Session served.
ServiceGet ==
    getBlock(lastOp.cid, lastOp.before, Fetcher(exchange), lastOp.fault,
             IF lastOp.fetch = "none" THEN "hit" ELSE lastOp.fetch)

ReadCalls(calls) ==
    \A i \in 1..Len(calls) :
        \/ calls[i].tgt = "store" /\ calls[i].op = "Get"
        \/ calls[i].tgt = "exchange" /\ calls[i].op \in {"GetBlock", "GetBlocks"}

Usable(v) == Unmarshal(v) # NilEntry /\ ParseRFC3339(Unmarshal(v).validity).err = Nil

Eol(v) == ParseRFC3339(Unmarshal(v).validity).t

\* v is at least as good as w: by sequence number, then EOL, then raw bytes.
AtLeast(v, w) ==
    \/ Unmarshal(v).seq > Unmarshal(w).seq
    \/ /\ Unmarshal(v).seq = Unmarshal(w).seq
       /\ \/ Eol(v) > Eol(w)
          \/ Eol(v) = Eol(w) /\ v >= w

Reorderings(vs) ==
    {[i \in 1..Len(vs) |-> vs[f[i]]] : f \in Permutations(1..Len(vs))}

Selected(vs) ==
    LET r == selectRecord(Entries(vs), vs)
    IN  IF r.err # Nil THEN [err |-> r.err, val |-> 0]
        ELSE [err |-> Nil, val |-> vs[r.idx + 1]]

\* C16: IpnsSelectorFunc returns an error exactly when no record is usable;
\* otherwise the index it returns is within the list, names a usable record,
\* and that record has the greatest sequence number among the usable ones,
\* among those the latest EOL and among those the greatest raw bytes; the
\* record selected is the same for every reordering of the list.
C16_SelectsBestRecord ==
    picked # NotRun =>
        LET usable == {i \in 1..Len(vals) : Usable(vals[i])}
        IN  /\ (picked.err # Nil) <=> (usable = {})
            /\ picked.idx \in 0..(IF vals = <<>> THEN 0 ELSE Len(vals) - 1)
            /\ picked.err = Nil =>
                /\ (picked.idx + 1) \in usable
                /\ \A j \in usable : AtLeast(vals[picked.idx + 1], vals[j])
            /\ \A other \in Reorderings(vals) : Selected(other) = Selected(vals)

\* Three usable records with one sequence number, two of them with the same
\* instant written differently, after an unusable one: the last tie-break
\* decides, and the record chosen is not the first of the list.
C16_Witness ==
    /\ picked # NotRun
    /\ picked.err = Nil
    /\ vals = <<5, 2, 6>>
    /\ picked.idx = 2

(***************************************************************************)
(* The order of local and remote lookups (specifications Spec, SpecReads). *)
(***************************************************************************)
\* C17: GetBlock asks the exchange at most once, and only after the store's
\* Get of the public form reported not-found.  A local hit makes no fetch; a
\* store failure other than not-found is returned as it is, without a fetch;
\* when the exchange reports not-found the result is ErrNotFound; any other
\* error of the exchange is returned unchanged; a block the exchange returns
\* is rebuilt with the cid the caller passed and returned.
C17_FetchOnlyAfterLocalMiss ==
    ( /\ lastOp.op = "GetBlock"
      /\ PassesGate(lastOp.cid.pub) ) =>
        LET p    == CidToPublic(lastOp.cid).pub
            get  == Call("store", "Get", p)
            ask  == Call("exchange", "GetBlock", p)
            held == lastOp.before[p] # Absent
        IN  /\ lastOp.calls \in {<<get>>, <<get, ask>>}
            /\ lastOp.calls = <<get, ask>> =>
                (~held /\ lastOp.fault = "none" /\ exchange # "nil")
            /\ (held /\ lastOp.fault = "none") =>
                /\ lastOp.calls = <<get>>
                /\ lastOp.res # ErrNotFound
                /\ lastOp.res = Nil => lastOp.out.cid = lastOp.cid
            /\ lastOp.fault = "get" =>
                /\ lastOp.calls = <<get>>
                /\ lastOp.res = ErrStore
                /\ lastOp.out = NoBlock
            /\ (~held /\ lastOp.fault = "none" /\ exchange # "nil") =>
                /\ lastOp.calls = <<get, ask>>
                /\ lastOp.fetch = "notfound" =>
                    (lastOp.res = ErrNotFound /\ lastOp.out = NoBlock)
                /\ lastOp.fetch = "err" =>
                    (lastOp.res = ErrTransport /\ lastOp.out = NoBlock)
                /\ lastOp.fetch = "hit" =>
                    /\ lastOp.res = NewAutoDecryptedBlock(PubData(p), lastOp.cid).err
                    /\ lastOp.out = NewAutoDecryptedBlock(PubData(p), lastOp.cid).blk
                    /\ lastOp.res = Nil => lastOp.out.cid = lastOp.cid

\* A sealed block fetched from the exchange under a cid that carries its key,
\* while the store holds another block.
C17_Witness ==
    /\ lastOp.op = "GetBlock"
    /\ lastOp.cid = [pub |-> "p2", key |-> "k1"]
    /\ lastOp.before["p2"] = Absent
    /\ lastOp.before["p1"] # Absent
    /\ lastOp.fetch = "hit"
    /\ lastOp.res = Nil
    /\ lastOp.out = [cid |-> lastOp.cid, sealed |-> PubData("p2")]
    /\ Cardinality(ExchangeCalls(lastOp.calls)) = 1

RECURSIVE FailedKeys(_, _)
\* The public cids of the lookups that did not hit, in the order of the scan.
FailedKeys(k2, ends) ==
    IF ends = <<>> THEN <<>>
    ELSE (IF Head(ends) # "hit" THEN <<Head(k2).pub>> ELSE <<>>)
         \o FailedKeys(Tail(k2), Tail(ends))

\* C18: in a batched read with a fetcher, f.GetBlocks is called at most once,
\* as the last call, after the sequential scan has made its bs.Get for every
\* key; its argument is the miss list, which holds exactly the public cids
\* whose lookup failed, with not-found or with any other store error, in scan
\* order, and is not empty.  When the scan has finished the call was made
\* exactly if there was a miss.  A failing lookup does not end the scan: only
\* a cancellation ends it before the last key.
C18_OneFetchAfterScan ==
    LET asks == CallsOf(gbCalls, "exchange", "GetBlocks")
        gets == CallsOf(gbCalls, "store", "Get")
    IN  /\ Cardinality(asks) <= 1
        /\ Cardinality(gets) = Len(lookups)
        /\ Len(lookups) <= Len(ks)
        /\ misses = FailedKeys(Ks2(ks), lookups)
        /\ \A i \in asks :
            /\ i = Len(gbCalls)
            /\ Len(lookups) = Len(ks)
            /\ gbCalls[i].arg = misses
            /\ misses # <<>>
            /\ \A j \in 1..Len(ks) :
                   ks[j].pub \in Range(gbCalls[i].arg) =>
                       \E n \in 1..Len(ks) : ks[n].pub = ks[j].pub /\ lookups[n] # "hit"
        /\ (fetcher # "nil" /\ idx > Len(ks) /\ pc # "scan") =>
               ((asks = {}) <=> (misses = <<>>))
        /\ (Exited /\ Len(lookups) < Len(ks)) => ctxDone

\* A store error on the first key, a hit on the second, then the fetch of
\* the first key alone.
C18_Witness ==
    /\ lastOp.op = "GetBlocks"
    /\ Len(ks) = 2
    /\ ks[1].pub # ks[2].pub
    /\ lookups = <<"fail", "hit">>
    /\ Len(out) = 1
    /\ gbCalls = <<Call("store", "Get", ks[1].pub), Call("store", "Get", ks[2].pub),
                   Call("exchange", "GetBlocks", <<ks[1].pub>>)>>
    /\ pc = "recv"

(***************************************************************************)
(* The batched write after the gate (specification SpecAddBlocks).         *)
(***************************************************************************)
\* C19: AddBlocks of a batch that passed the gate, on a service that has an
\* exchange and whose store does not fail.  The accepted blocks are, with
\* checkFirst, those whose public cid the store did not hold, and all of them
\* otherwise.  They are written with one PutMany call; then they are
\* announced one by one in order, up to and including the first announcement
\* that fails, which makes the call return an error and leaves the later ones
\* unannounced.  Every accepted block is in the blockstore afterwards,
\* announced or not; a block filtered out is not written and not announced.
C19_BulkWriteThenAnnounce ==
    ( /\ lastOp.op = "AddBlocks"
      /\ \A i \in 1..Len(lastOp.batch) : Admissible(lastOp.batch[i])
      /\ lastOp.fault \in {"none", "announce"}
      /\ exchange # "nil" ) =>
        LET n        == Len(lastOp.batch)
            pubs     == [i \in 1..n |-> PublicOf(lastOp.batch[i]).pub]
            accepted == IF checkFirst
                        THEN SelectSeq(pubs, LAMBDA q : lastOp.before[q] = Absent)
                        ELSE pubs
            has      == IF checkFirst
                        THEN [i \in 1..n |-> Call("store", "Has", pubs[i])]
                        ELSE <<>>
            failAt   == IF accepted = <<>> THEN 0
                        ELSE IF exchange = "closed" THEN 1
                        ELSE IF lastOp.fault = "announce" /\ lastOp.at <= Len(accepted)
                             THEN lastOp.at
                        ELSE 0
            last     == IF failAt = 0 THEN Len(accepted) ELSE failAt
            ann      == [i \in 1..last |-> Call("exchange", "HasBlock", accepted[i])]
        IN  /\ lastOp.calls = has \o <<Call("store", "PutMany", accepted)>> \o ann
            /\ lastOp.res = IF failAt = 0 THEN Nil ELSE ErrClosed
            /\ \A q \in PubCids :
                   blockstore[q] = IF q \in Range(accepted) THEN PubData(q)
                                   ELSE lastOp.before[q]
            /\ \A i \in CallsOf(lastOp.calls, "exchange", "HasBlock") :
                   checkFirst => lastOp.before[lastOp.calls[i].arg] = Absent

\* With checkFirst: a block already held is filtered out, the first of the
\* two accepted blocks fails to be announced, the second is not announced,
\* and what was accepted is stored.
C19_Witness ==
    /\ lastOp.op = "AddBlocks"
    /\ checkFirst
    /\ exchange = "open"
    /\ lastOp.fault = "announce"
    /\ lastOp.at = 1
    /\ Len(lastOp.batch) = 3
    /\ lastOp.batch[1].cid = [pub |-> "p2", key |-> "k1"]
    /\ lastOp.batch[2].cid = [pub |-> "p1", key |-> NoKey]
    /\ lastOp.batch[3].cid = [pub |-> "p2", key |-> "k1"]
    /\ lastOp.before["p1"] # Absent
    /\ lastOp.before["p2"] = Absent
    /\ lastOp.res = ErrClosed
    /\ Announcements(lastOp.calls) = 1
    /\ blockstore["p2"] = PubData("p2")

(***************************************************************************)
(* Decryption failures in the reads (specification SpecReads).             *)
(***************************************************************************)
\* The stored bytes of c's public form can be rebuilt under c.
Projectable(c) == NewAutoDecryptedBlock(PubData(c.pub), c).err = Nil

\* A single read that found the bytes, locally or at the exchange.
FoundBytes ==
    /\ lastOp.op = "GetBlock"
    /\ PassesGate(lastOp.cid.pub)
    /\ \/ lastOp.fault = "none" /\ lastOp.before[lastOp.cid.pub] # Absent
       \/ lastOp.fetch = "hit"

\* In a single read a block that cannot be rebuilt is an error, never
\* ErrNotFound and never a block.
SingleReadFails ==
    (FoundBytes /\ ~Projectable(lastOp.cid)) =>
        /\ lastOp.res = ErrDecrypt
        /\ lastOp.out = NoBlock

\* In a batched read no block is sent that could not be rebuilt, the
\* goroutine does not stop on one, and the blocks of the exchange's stream
\* that follow one are still sent.
BatchSkipsFailures ==
    /\ \A i \in 1..Len(out) : RawData(out[i]) # DecryptErr
    /\ pc = "crashed" => fetcher = "nil"
    /\ pc = "recv" =>
           \A n \in 1..Len(rsent) :
               Projectable(Mapping(ks, rsent[n])) =>
                   \E i \in 1..Len(out) : out[i].cid = Mapping(ks, rsent[n])

\* C20: a decryption failure makes GetBlock return an error, for a local hit
\* and for a remote hit; in a batched read the failing key yields no block and
\* no error and the goroutine goes on, so that every other key of the batch
\* that was read from the blockstore and can be rebuilt is delivered.
C20_DecryptFailureAsymmetric ==
    /\ SingleReadFails
    /\ BatchSkipsFailures
    /\ \A j \in 1..Len(ks) :
           (j < idx /\ lookups[j] = "hit" /\ Projectable(ks[j])) =>
               \E i \in 1..Len(out) : out[i].cid = ks[j]

\* What the code gives for C20: a key read from the blockstore is delivered
\* when the bytes can be rebuilt under the cid entered last in ks for its
\* public form, and then under that cid.
C20_DeliversUnderMappedCid ==
    /\ SingleReadFails
    /\ BatchSkipsFailures
    /\ \A j \in 1..Len(ks) :
           (j < idx /\ lookups[j] = "hit") =>
               (Projectable(Mapping(ks, ks[j].pub)) <=>
                   \E i \in 1..Len(out) : out[i].cid = Mapping(ks, ks[j].pub))

(***************************************************************************)
(* Concurrent AddBlock calls (specification SpecRace).                     *)
(***************************************************************************)
Ended == \A i \in Procs : race.procs[i].pc \in {"done", "killed"}

\* What the call of i returns and leaves when it runs alone.
Alone(i) ==
    AddBlockRun(race.procs[i].blk, race.before, checkFirst, exchange,
                race.procs[i].fault)

\* Both calls were given blocks that project; their public cids.
BothProject == \A i \in Procs : ToPublic(race.procs[i].blk).err = Nil

\* With checkFirst, two calls for one admissible public cid, no collaborator
\* failure, exchange not shut down: both return nil, the blockstore is what
\* one call leaves, the block was written (and announced) once or twice when
\* it was absent and not at all when it was held.
SameBlockRace ==
    ( /\ Ended
      /\ checkFirst
      /\ exchange # "closed"
      /\ \A i \in Procs : Admissible(race.procs[i].blk)
                           /\ race.procs[i].fault = "none"
      /\ PublicOf(race.procs[1].blk) = PublicOf(race.procs[2].blk) ) =>
        LET p == PublicOf(race.procs[1].blk).pub
        IN  /\ \A i \in Procs : race.procs[i].pc = "done" /\ race.procs[i].res = Nil
            /\ blockstore = [race.before EXCEPT ![p] = PubData(p)]
            /\ blockstore = Alone(1).store
            /\ StoreWrites(race.calls) = Announcements(race.calls)
            /\ StoreWrites(race.calls) \in
                   (IF race.before[p] = Absent THEN {1, 2} ELSE {0})

\* Two calls for different public cids: each returns what it returns alone,
\* and the blockstore holds what each leaves.
DifferentBlocksRace ==
    ( /\ Ended
      /\ BothProject
      /\ PublicOf(race.procs[1].blk) # PublicOf(race.procs[2].blk) ) =>
        /\ \A i \in Procs : /\ race.procs[i].pc = "done"
                             /\ race.procs[i].res = Alone(i).res
        /\ \A q \in PubCids :
               blockstore[q] =
                   IF q = PublicOf(race.procs[1].blk).pub THEN Alone(1).store[q]
                   ELSE IF q = PublicOf(race.procs[2].blk).pub THEN Alone(2).store[q]
                   ELSE race.before[q]

\* C21: for every interleaving of two concurrent AddBlock calls with
\* checkFirst and the same admissible block, both return nil and the
\* blockstore ends as after one call; the race at most doubles the write and
\* the announcement and never loses the block; calls for different cids do
\* not change each other's outcome.
C21_RaceIsBenign ==
    /\ SameBlockRace
    /\ DifferentBlocksRace

\* What the code gives for C21: the same, on a service that has an exchange.
C21_BenignWithExchange == exchange # "nil" => C21_RaceIsBenign

\* Both calls saw the block absent, both wrote it and both announced it.
C21_BothWrote ==
    /\ Ended
    /\ checkFirst
    /\ exchange = "open"
    /\ race.procs[1].blk = race.procs[2].blk
    /\ race.procs[1].res = Nil
    /\ race.procs[2].res = Nil
    /\ StoreWrites(race.calls) = 2
    /\ Announcements(race.calls) = 2

(***************************************************************************)
(* The service without an exchange (specifications Spec, SpecAddBlocks,    *)
(* SpecReads).                                                             *)
(***************************************************************************)
\* C22: a service built with a nil exchange never uses it.  No operation
\* ends in a nil dereference and none makes an exchange call: a fault-free
\* AddBlock or AddBlocks of admissible blocks stores them and returns nil, a
\* batched read with a local miss does not crash, and Close returns nil.
C22_OfflineNeverUsesExchange ==
    exchange = "nil" =>
        /\ lastOp.res # Panic
        /\ pc # "crashed"
        /\ ExchangeCalls(lastOp.calls) = {}
        /\ ExchangeCalls(gbCalls) = {}
        /\ ( /\ lastOp.op = "AddBlock"
             /\ Admissible(lastOp.blk)
             /\ lastOp.fault = "none" ) =>
                /\ lastOp.res = Nil
                /\ blockstore[PublicOf(lastOp.blk).pub] # Absent
        /\ ( /\ lastOp.op = "AddBlocks"
             /\ \A i \in 1..Len(lastOp.batch) : Admissible(lastOp.batch[i])
             /\ lastOp.fault = "none" ) => lastOp.res = Nil
        /\ lastOp.op = "Close" => lastOp.res = Nil

\* What the code gives for C22: no exchange call is recorded, the single
\* read never faults, and a write that faults has stored its block first.
C22_OfflineReadsAndStoredWrites ==
    exchange = "nil" =>
        /\ ExchangeCalls(lastOp.calls) = {}
        /\ ExchangeCalls(gbCalls) = {}
        /\ lastOp.op = "GetBlock" => lastOp.res # Panic
        /\ ( /\ lastOp.op = "AddBlock"
             /\ lastOp.res = Panic ) =>
                /\ Admissible(lastOp.blk)
                /\ blockstore[PublicOf(lastOp.blk).pub] # Absent
        /\ pc = "crashed" => (misses # <<>> /\ closes = 1)

====
